---- MODULE Spec2Model ----
(***************************************************************************)
(* Passwordless mobile-number authentication of funds-projector-api:       *)
(* sendOtp / verifyOtp (controllers), the users and otps tables, the OTP   *)
(* helpers and the session token.  Every request is a process whose steps  *)
(* are the handler's code between two awaited store queries: one step is   *)
(* "the store executes the awaited query and the handler runs on to its    *)
(* next await (or to its response)".  A request slot holds a request in    *)
(* flight; the frame of the request that answered last is kept in `last`.  *)
(* SpecGate is the auth middleware (authenticate, verifyToken) in front of  *)
(* the protected routes; SpecFn applies the validation, normalization and  *)
(* OTP helpers to one argument; SpecDb is connectDB and its cached pool    *)
(* under concurrent query() calls.                                         *)
(***************************************************************************)
EXTENDS Integers, Sequences, FiniteSets, TLC

\* ------------------------------------------------------------- bounds
\* Concurrent requests in flight (request slots).
NumProcs == 2
\* Requests started in one run.
MaxRequests == 3
\* Clock advances in one run.
MaxTicks == 2

\* -------------------------------------------------- program constants
\* getOTPExpiryTime: 15 minutes (the clock counts minutes).
OtpExpiryMinutes == 15
\* JWT_EXPIRES_IN '7d', in minutes.
JwtExpiresInMinutes == 10080

\* -------------------------------------------------------------- state
VARIABLES
  users,          \* users table: rows [id, mobile_number]
  nextUserId,     \* users.id SERIAL sequence
  otps,           \* otps table: rows [user_id, mobile_number, otp, expiry_time]
  now,            \* wall clock, minutes
  ticks,          \* clock advances so far
  isDevelopment,  \* NODE_ENV === 'development' || !AWS_LAMBDA_FUNCTION_NAME
  req,            \* per request slot: the handler's position and locals
  last,           \* the handler frame and response of the latest answered request
  started,        \* requests started so far
  upsertCount,    \* history: otps upserts committed so far (0, 1, many)
  verifyOkCount,  \* history: verifications answered 200 after a stored-OTP check
  consumed,       \* history: users whose OTP a verification deleted, no upsert since
  issued,         \* history: per user with a standing OTP, the code the latest
                  \* sendOtp stored (cur) and the one before it (prev)
  held,           \* the token a client holds, with the payload and time of its issue
  gate,           \* the latest request at the auth middleware and its outcome
  fnIn,           \* the argument of the helper functions under test
  fnOut,          \* their results
  db              \* database.js: cachedPool, the pools made, the calls in flight

\* ------------------------------------------------------ request inputs
Procs == 1..NumProcs

Digits == {"0", "1", "2", "3", "4", "5", "6", "7", "8", "9"}

\* The fixed test OTP '123456' of development mode.
TestOtp == <<"1", "2", "3", "4", "5", "6">>

OtherOtp == <<"6", "5", "4", "3", "2", "1">>

\* req.body.mobileNumber: <<>> is a missing number; "98" and "+9198" are one
\* number in raw and prefixed form; "05" is malformed.
MobileInputs ==
  { <<>>,
    <<"9", "8">>,
    <<"+", "9", "1", "9", "8">>,
    <<"0", "5">> }

\* req.body.otp: <<>> is a missing code, "12345" is malformed.
OtpInputs == { <<>>, TestOtp, OtherOtp, <<"1", "2", "3", "4", "5">> }

\* Values Math.floor(100000 + Math.random() * 900000) can take.
RandomOtpNumbers == {123456, 654321}

\* Number.prototype.toString for a non-negative integer (decimal digits).
RECURSIVE toString(_)
toString(n) ==
  LET d == CHOOSE c \in Digits :
             c = <<"0", "1", "2", "3", "4", "5", "6", "7", "8", "9">>[(n % 10) + 1]
  IN IF n < 10 THEN <<d>> ELSE toString(n \div 10) \o <<d>>

\* Math.random() is taken in steps of 1 / RandomGrain.
RandomGrain == 1000

\* Values of Math.random(), as numerators over RandomGrain: the ends and the
\* middle of [0, 1).
RandomSamples == {0, 1, RandomGrain \div 2, RandomGrain - 1}

\* Mutant of generateOTP: Math.floor(Math.random() * 1000000), short numbers
\* keep fewer digits.
generateOTP_Short(random) == toString((random * 1000000) \div RandomGrain)

\* generateOTP: Math.floor(100000 + Math.random() * 900000).toString()
generateOTP(random) == toString(100000 + (random * 900000) \div RandomGrain)

\* ------------------------------------------------------------ helpers
\* String.prototype.startsWith('+')
startsWithPlus(s) == Len(s) > 0 /\ s[1] = "+"

AllDigits(s) == \A i \in 1..Len(s) : s[i] \in Digits

\* mobileRegex = /^\+?[1-9]\d{1,14}$/
mobileRegexTest(s) ==
  LET body == IF startsWithPlus(s) THEN Tail(s) ELSE s
  IN /\ Len(body) >= 2
     /\ Len(body) <= 15
     /\ body[1] \in (Digits \ {"0"})
     /\ AllDigits(body)

\* Mutant of normalize: the raw input is used as it came.
normalize_Raw(mobileNumber) == mobileNumber

\* Mutant of normalize: the country code is put in front of every input.
normalize_Always(mobileNumber) == <<"+", "9", "1">> \o mobileNumber

\* mobileNumber.startsWith('+') ? mobileNumber : `+91${mobileNumber}`
normalize(mobileNumber) ==
  IF startsWithPlus(mobileNumber) THEN mobileNumber
  ELSE <<"+", "9", "1">> \o mobileNumber

\* Mutant of isValidOTPFormat: every code passes.
isValidOTPFormat_Any(otp) == TRUE

\* isValidOTPFormat: /^\d{6}$/
isValidOTPFormat(otp) == Len(otp) = 6 /\ AllDigits(otp)

\* Mutant of isOTPExpired: expired from the expiry instant on.
isOTPExpired_AtOrAfter(expiryTime, clock) == clock >= expiryTime

\* Mutant of isOTPExpired: the expiry check is missing.
isOTPExpired_Never(expiryTime, clock) == FALSE

\* Mutant of isOTPExpired: the comparison is inverted.
isOTPExpired_Before(expiryTime, clock) == clock < expiryTime

\* isOTPExpired: new Date() > new Date(expiryTime)
isOTPExpired(expiryTime, clock) == clock > expiryTime

\* getOTPExpiryTime: now + 15 minutes
getOTPExpiryTime(clock) == clock + OtpExpiryMinutes

\* ---------------------------------------------------- the session token
\* process.env.JWT_SECRET || 'your-secret-key-change-in-production'
JWT_SECRET == "your-secret-key-change-in-production"

\* The HMAC of a token: it is made with a key over the claims, and it fits a
\* token only if the token's claims are the ones it was made over.
Signature(key, userId, mobileNumber, iat, exp) ==
  [key |-> key, over |-> <<userId, mobileNumber, iat, exp>>]

\* Mutant of generateToken: the payload lacks the user id.
generateToken_NoUserId(userId, mobileNumber, clock) ==
  [form |-> "jwt", userId |-> 0, mobileNumber |-> mobileNumber,
   iat |-> clock, exp |-> clock + JwtExpiresInMinutes,
   sig |-> Signature(JWT_SECRET, 0, mobileNumber, clock,
                     clock + JwtExpiresInMinutes)]

\* generateToken: jwt.sign(payload, JWT_SECRET, {expiresIn}).  jwt.sign adds the
\* claims iat and exp to the payload and signs the whole; `form` tells a JWT
\* from other text.
generateToken(userId, mobileNumber, clock) ==
  [form |-> "jwt", userId |-> userId, mobileNumber |-> mobileNumber,
   iat |-> clock, exp |-> clock + JwtExpiresInMinutes,
   sig |-> Signature(JWT_SECRET, userId, mobileNumber, clock,
                     clock + JwtExpiresInMinutes)]

NoToken == [form |-> "", userId |-> 0, mobileNumber |-> <<>>, iat |-> 0, exp |-> 0,
            sig |-> Signature("", 0, <<>>, 0, 0)]

\* The claims jwt.verify hands back (req.user).
NoPayload == [userId |-> 0, mobileNumber |-> <<>>, iat |-> 0, exp |-> 0]

Claims(t) == [userId |-> t.userId, mobileNumber |-> t.mobileNumber,
              iat |-> t.iat, exp |-> t.exp]

\* Messages of verifyToken and of the auth middleware.
ErrTokenExpired == "Token has expired"
ErrInvalidToken == "Invalid token"
ErrAuthHeaderRequired == "Authorization header is required"
ErrTokenRequired == "Token is required"
ErrInvalidOrExpired == "Invalid or expired token"

\* A string that may hold tokens is a sequence of pieces: a JWT is one piece of
\* form "jwt", the text 'Bearer ' is one piece, any other text is one piece.
BearerPrefix == [NoToken EXCEPT !.form = "Bearer "]
NotAToken == [NoToken EXCEPT !.form = "text"]

\* verifyToken returns the decoded claims (error "") or throws Error(error).
Decoded(t) == [error |-> "", decoded |-> Claims(t)]
Thrown(error) == [error |-> error, decoded |-> NoPayload]

\* jwt.verify: a string that is one JWT, signed with the secret over its claims.
IsJwt(token) == Len(token) = 1 /\ token[1].form = "jwt"
SignedWith(t, secret) ==
  t.sig = Signature(secret, t.userId, t.mobileNumber, t.iat, t.exp)

\* Mutant of verifyToken: the token is only decoded (jwt.decode).
verifyToken_DecodeOnly(token, clock) ==
  IF ~IsJwt(token) THEN Thrown(ErrInvalidToken) ELSE Decoded(token[1])

\* Mutant of verifyToken: the expiry is ignored (ignoreExpiration).
verifyToken_NoExpiry(token, clock) ==
  IF ~IsJwt(token) THEN Thrown(ErrInvalidToken)
  ELSE IF ~SignedWith(token[1], JWT_SECRET) THEN Thrown(ErrInvalidToken)
  ELSE Decoded(token[1])

\* Mutant of verifyToken: the expiry is looked at before the signature.
verifyToken_ExpiryFirst(token, clock) ==
  IF ~IsJwt(token) THEN Thrown(ErrInvalidToken)
  ELSE IF clock >= token[1].exp THEN Thrown(ErrTokenExpired)
  ELSE IF ~SignedWith(token[1], JWT_SECRET) THEN Thrown(ErrInvalidToken)
  ELSE Decoded(token[1])

\* Mutant of verifyToken: a token is refused while its user has a standing
\* OTP (requesting a new OTP logs the user out).
verifyToken_Revocable(token, clock) ==
  IF ~IsJwt(token) THEN Thrown(ErrInvalidToken)
  ELSE IF ~SignedWith(token[1], JWT_SECRET) THEN Thrown(ErrInvalidToken)
  ELSE IF \E o \in otps : o.user_id = token[1].userId THEN Thrown(ErrInvalidToken)
  ELSE IF clock >= token[1].exp THEN Thrown(ErrTokenExpired)
  ELSE Decoded(token[1])

\* verifyToken: jwt.verify(token, JWT_SECRET); TokenExpiredError becomes
\* 'Token has expired', JsonWebTokenError becomes 'Invalid token'.  jwt.verify
\* checks the structure, then the signature, then exp (expired from exp on).
verifyToken(token, clock) ==
  IF ~IsJwt(token) THEN Thrown(ErrInvalidToken)
  ELSE IF ~SignedWith(token[1], JWT_SECRET) THEN Thrown(ErrInvalidToken)
  ELSE IF clock >= token[1].exp THEN Thrown(ErrTokenExpired)
  ELSE Decoded(token[1])

\* ------------------------------------------------- the auth middleware
\* authHeader.startsWith('Bearer ')
startsWithBearer(authHeader) == Len(authHeader) > 0 /\ authHeader[1] = BearerPrefix

\* Mutant of extractToken: only a 'Bearer ' header carries a token.
extractToken_BearerOnly(authHeader) ==
  IF startsWithBearer(authHeader) THEN Tail(authHeader) ELSE <<>>

\* authHeader.startsWith('Bearer ') ? authHeader.slice(7) : authHeader
extractToken(authHeader) ==
  IF startsWithBearer(authHeader) THEN Tail(authHeader) ELSE authHeader

\* The middleware's outcome: a 401 response, or req.user set and next() called.
NoGate ==
  [seen |-> FALSE, authHeader |-> <<>>, at |-> 0, token |-> <<>>,
   verifyCalled |-> FALSE, status |-> 0, error |-> "",
   user |-> NoPayload, forwarded |-> FALSE]

\* error.message || 'Invalid or expired token'
Message(error) == IF error = "" THEN ErrInvalidOrExpired ELSE error

\* authenticate(req, res, next) at time clock.
authenticate(authHeader, clock) ==
  LET g == [NoGate EXCEPT !.seen = TRUE, !.authHeader = authHeader, !.at = clock]
      token == extractToken(authHeader)
      v == verifyToken(token, clock)
  IN IF authHeader = <<>>
     THEN [g EXCEPT !.status = 401, !.error = ErrAuthHeaderRequired]
     ELSE IF token = <<>>
     THEN [g EXCEPT !.status = 401, !.error = ErrTokenRequired]
     ELSE IF v.error = ""
     THEN [g EXCEPT !.token = token, !.verifyCalled = TRUE,
                    !.user = v.decoded, !.forwarded = TRUE]
     ELSE [g EXCEPT !.token = token, !.verifyCalled = TRUE,
                    !.status = 401, !.error = Message(v.error)]

\* ---------------------------------------------------------- the store
\* Mutant of SelectUser: the lookup finds nobody.
SelectUser_None(rows, mobile) == {}

\* SELECT ... FROM users WHERE mobile_number = $1
SelectUser(rows, mobile) == {u \in rows : u.mobile_number = mobile}

\* SELECT ... FROM otps WHERE user_id = $1 AND mobile_number = $2
SelectOtp(rows, userId, mobile) ==
  {o \in rows : o.user_id = userId /\ o.mobile_number = mobile}

\* Mutant of UpsertOtp: a plain INSERT, the old row stays.
UpsertOtp_Append(rows, userId, otp, expiryTime, mobile) ==
  rows \cup {[user_id |-> userId, mobile_number |-> mobile,
              otp |-> otp, expiry_time |-> expiryTime]}

\* Mutant of UpsertOtp: ON CONFLICT DO NOTHING, the old code stays.
UpsertOtp_KeepOld(rows, userId, otp, expiryTime, mobile) ==
  IF \E o \in rows : o.user_id = userId THEN rows
  ELSE rows \cup {[user_id |-> userId, mobile_number |-> mobile,
                   otp |-> otp, expiry_time |-> expiryTime]}

\* Mutant of UpsertOtp: ON CONFLICT updates the otp and leaves expiry_time.
UpsertOtp_KeepExpiry(rows, userId, otp, expiryTime, mobile) ==
  IF \E o \in rows : o.user_id = userId
  THEN {IF o.user_id = userId THEN [o EXCEPT !.otp = otp] ELSE o : o \in rows}
  ELSE rows \cup {[user_id |-> userId, mobile_number |-> mobile,
                   otp |-> otp, expiry_time |-> expiryTime]}

\* INSERT INTO otps ... ON CONFLICT (user_id) DO UPDATE SET otp, expiry_time
UpsertOtp(rows, userId, otp, expiryTime, mobile) ==
  IF \E o \in rows : o.user_id = userId
  THEN {IF o.user_id = userId
        THEN [o EXCEPT !.otp = otp, !.expiry_time = expiryTime]
        ELSE o : o \in rows}
  ELSE rows \cup {[user_id |-> userId, mobile_number |-> mobile,
                   otp |-> otp, expiry_time |-> expiryTime]}

\* Mutant of DeleteOtp: the used OTP is left in place.
DeleteOtp_Keep(rows, userId) == rows

\* Mutant of DeleteOtp: the filter is inverted, the user's row stays.
DeleteOtp_Others(rows, userId) == {o \in rows : o.user_id = userId}

\* DELETE FROM otps WHERE user_id = $1
DeleteOtp(rows, userId) == {o \in rows : o.user_id # userId}

\* Mutant of FailedAttempt: a rejected attempt invalidates the stored OTP.
FailedAttempt_Invalidate(rows, userId) == {o \in rows : o.user_id # userId}

\* The three rejections of lines 584-605 return without another query.
FailedAttempt(rows, userId) == rows

\* ------------------------------------------------------- state tuples
vars == <<users, nextUserId, otps, now, ticks, isDevelopment, req, last, started,
          upsertCount, verifyOkCount, consumed, issued, held, gate, fnIn, fnOut, db>>

store == <<users, nextUserId, otps>>
history == <<upsertCount, verifyOkCount, consumed, issued>>
\* The state of the middleware and of the helper functions under test.
aux == <<held, gate, fnIn, fnOut, db>>

\* Response messages of the two handlers.
ErrMobileRequired == "Mobile number is required"
ErrMobileFormat == "Invalid mobile number format"
ErrFieldsRequired == "Mobile number and OTP are required"
ErrOtpFormat == "Invalid OTP format. OTP must be 6 digits"
ErrUserNotFound == "User not found. Please request OTP first"
ErrOtpNotFound == "OTP not found. Please request a new OTP"
ErrOtpExpired == "OTP has expired. Please request a new OTP"
ErrOtpInvalid == "Invalid OTP"
\* The store's error on a second INSERT of one mobile_number, passed to next(error).
ErrUniqueViolation == "duplicate key value violates unique constraint"

NoReq ==
  [op |-> "none", pc |-> "idle",
   mobileNumber |-> <<>>, otp |-> <<>>,          \* req.body
   normalizedMobile |-> <<>>, userId |-> 0, isNewUser |-> FALSE,
   newOtp |-> <<>>, newExpiry |-> 0,            \* sendOtp: otp, expiryTime
   rowFound |-> FALSE, storedOtp |-> <<>>, expiryTime |-> 0,  \* verifyOtp: otpResult
   bypass |-> FALSE,                            \* verifyOtp: the test OTP branch
   token |-> NoToken,
   status |-> 0, error |-> "", resOtp |-> <<>>]  \* the response

\* No token has been handed out yet.
NoHeld == [issued |-> FALSE, userId |-> 0, mobileNumber |-> <<>>, at |-> 0,
           token |-> NoToken]

\* The helper functions have not been applied yet.
NoOut == [applied |-> FALSE, normalized |-> <<>>, twice |-> <<>>,
          error |-> "", otpValid |-> FALSE, otp |-> <<>>]

\* A handler's call of query(): its position in connectDB, the pool it made
\* or was given, and how the handler went on.
NoCall == [pc |-> "idle", op |-> "none", pool |-> 0, returned |-> 0,
           nextError |-> FALSE, status |-> 0, token |-> NoToken]

\* let cachedPool = null (0), no pool made yet.
NoDb == [cachedPool |-> 0, created |-> 0, listening |-> {}, failed |-> FALSE,
         call |-> [p \in Procs |-> NoCall]]

\* Empty tables, no request in flight.
InitStore ==
  /\ users = {}
  /\ nextUserId = 1
  /\ otps = {}
  /\ req = [p \in Procs |-> NoReq]
  /\ last = NoReq
  /\ started = 0
  /\ upsertCount = 0
  /\ verifyOkCount = 0
  /\ consumed = {}
  /\ issued = {}

Init ==
  /\ InitStore
  /\ now = 0
  /\ ticks = 0
  /\ isDevelopment \in BOOLEAN
  /\ held = NoHeld
  /\ gate = NoGate
  /\ fnIn = <<>>
  /\ fnOut = NoOut
  /\ db = NoDb

\* A new request takes the lowest idle slot (slots are interchangeable).
Free(p) ==
  /\ req[p].pc = "idle"
  /\ started < MaxRequests
  /\ \A q \in 1..(p - 1) : req[q].pc # "idle"

\* res.status(status).json(...): the request of slot p is answered.
Respond(p, r, status, error) ==
  /\ last' = [r EXCEPT !.pc = "done", !.status = status, !.error = error]
  /\ req' = [req EXCEPT ![p] = NoReq]

\* The handler of slot p goes on to its next await.
Continue(p, r) ==
  /\ req' = [req EXCEPT ![p] = r]
  /\ last' = last

\* Saturating count: 0, 1, 2 (two or more).
Bump(n) == IF n < 2 THEN n + 1 ELSE n

\* The clock moves on by the OTP validity.
Tick ==
  /\ ticks < MaxTicks
  /\ now' = now + OtpExpiryMinutes
  /\ ticks' = ticks + 1
  /\ UNCHANGED <<store, isDevelopment, req, last, started, history, aux>>

\* ------------------------------------------------------------ sendOtp
\* The handler's locals once the user id is known: otp and expiryTime.
WithNewOtp(r, userId, otp) ==
  [r EXCEPT !.pc = "send_upsert_otp", !.userId = userId,
            !.newOtp = otp, !.newExpiry = getOTPExpiryTime(now)]

\* The codes line 482 can produce.
NewOtps == IF isDevelopment THEN {TestOtp}
           ELSE {toString(n) : n \in RandomOtpNumbers}

\* Mutant of responseOtp: the code is always in the response.
responseOtp_Always(dev, otp) == otp

\* ...(isDevelopment && { otp, ... }): the code is in the response in
\* development mode only.
responseOtp(dev, otp) == IF dev THEN otp ELSE <<>>

\* The 200 response of sendOtp for the handler frame r.
sendOtpResponse(r, dev) ==
  [status |-> 200, mobileNumber |-> r.normalizedMobile, isNewUser |-> r.isNewUser,
   otp |-> responseOtp(dev, r.newOtp), devMode |-> dev]

\* The validation of lines 441-453, made on the number as it came: the message
\* of the 400 response, "" when the handler goes on.
validateMobile(mobileNumber) ==
  IF mobileNumber = <<>> THEN ErrMobileRequired
  ELSE IF ~mobileRegexTest(mobileNumber) THEN ErrMobileFormat
  ELSE ""

\* POST /send-otp: validation, normalization and the SELECT of the user by
\* normalizedMobile; an existing user goes on to the OTP.  (The handler reads
\* nothing shared before this query, so its arrival and the query are one step.)
SendSelectUser(p) ==
  /\ Free(p)
  /\ \E m \in MobileInputs :
       LET r == [NoReq EXCEPT !.op = "sendOtp", !.mobileNumber = m]
           n == [r EXCEPT !.normalizedMobile = normalize(m)]
           rows == SelectUser(users, n.normalizedMobile)
       IN IF validateMobile(m) # "" THEN Respond(p, r, 400, validateMobile(m))
          ELSE IF rows = {}
          THEN Continue(p, [n EXCEPT !.pc = "send_insert_user", !.isNewUser = TRUE])
          ELSE \E u \in rows : \E otp \in NewOtps :
                 Continue(p, WithNewOtp(n, u.id, otp))
  /\ started' = started + 1
  /\ UNCHANGED <<store, now, ticks, isDevelopment, history, aux>>

\* INSERT the new user; mobile_number is UNIQUE, a second insert throws and the
\* catch block hands the error to next(error).
SendInsertUser(p) ==
  /\ req[p].pc = "send_insert_user"
  /\ LET r == req[p]
     IN IF SelectUser(users, r.normalizedMobile) # {}
        THEN /\ Respond(p, r, 500, ErrUniqueViolation)
             /\ users' = users
        ELSE /\ users' = users \cup
                   {[id |-> nextUserId, mobile_number |-> r.normalizedMobile]}
             /\ \E otp \in NewOtps : Continue(p, WithNewOtp(r, nextUserId, otp))
  /\ nextUserId' = nextUserId + 1
  /\ UNCHANGED <<otps, now, ticks, isDevelopment, started, history, aux>>

\* INSERT ... ON CONFLICT (user_id) DO UPDATE, then the 200 response.
SendUpsertOtp(p) ==
  /\ req[p].pc = "send_upsert_otp"
  /\ LET r == req[p]
     IN /\ otps' = UpsertOtp(otps, r.userId, r.newOtp, r.newExpiry,
                             r.normalizedMobile)
        /\ Respond(p, [r EXCEPT !.resOtp = sendOtpResponse(r, isDevelopment).otp],
                   sendOtpResponse(r, isDevelopment).status, "")
        /\ upsertCount' = Bump(upsertCount)
        /\ consumed' = consumed \ {r.userId}
        /\ issued' = {e \in issued : e.user_id # r.userId} \cup
             {[user_id |-> r.userId, cur |-> r.newOtp,
               prev |-> IF \E e \in issued : e.user_id = r.userId
                        THEN (CHOOSE e \in issued : e.user_id = r.userId).cur
                        ELSE <<>>]}
  /\ UNCHANGED <<users, nextUserId, now, ticks, isDevelopment, started, verifyOkCount, aux>>

\* ---------------------------------------------------------- verifyOtp
\* Mutant of skipsOtpCheck: the test OTP is checked like any other.
skipsOtpCheck_Never(dev, otp) == FALSE

\* isDevelopment && otp === '123456': the stored OTP is not looked at.
skipsOtpCheck(dev, otp) == dev /\ otp = TestOtp

\* POST /verify-otp: validation, normalization and the SELECT of the user; in
\* development mode the test OTP skips the otps lookup.  (Arrival and the first
\* query are one step, as in SendSelectUser.)
VerifySelectUser(p) ==
  /\ Free(p)
  /\ \E m \in MobileInputs : \E otp \in OtpInputs :
       LET r == [NoReq EXCEPT !.op = "verifyOtp", !.mobileNumber = m, !.otp = otp]
           n == [r EXCEPT !.normalizedMobile = normalize(m)]
           rows == SelectUser(users, n.normalizedMobile)
       IN IF m = <<>> \/ otp = <<>> THEN Respond(p, r, 400, ErrFieldsRequired)
          ELSE IF ~isValidOTPFormat(otp) THEN Respond(p, r, 400, ErrOtpFormat)
          ELSE IF rows = {} THEN Respond(p, n, 404, ErrUserNotFound)
          ELSE \E u \in rows :
                 IF skipsOtpCheck(isDevelopment, otp)
                 THEN Continue(p, [n EXCEPT !.pc = "verify_delete_otp",
                        !.userId = u.id, !.bypass = TRUE,
                        !.token = generateToken(u.id, n.normalizedMobile, now)])
                 ELSE Continue(p, [n EXCEPT !.pc = "verify_select_otp",
                                            !.userId = u.id])
  /\ started' = started + 1
  /\ UNCHANGED <<store, now, ticks, isDevelopment, history, aux>>

\* SELECT the OTP row, then the checks of lines 584-605 and generateToken.
VerifySelectOtp(p) ==
  /\ req[p].pc = "verify_select_otp"
  /\ LET r == req[p]
         rows == SelectOtp(otps, r.userId, r.normalizedMobile)
     IN /\ IF rows = {} THEN Respond(p, r, 400, ErrOtpNotFound)
           ELSE \E o \in rows :
                  LET l == [r EXCEPT !.rowFound = TRUE, !.storedOtp = o.otp,
                                     !.expiryTime = o.expiry_time]
                  IN IF isOTPExpired(o.expiry_time, now)
                     THEN Respond(p, l, 400, ErrOtpExpired)
                     ELSE IF o.otp # r.otp
                     THEN Respond(p, l, 400, ErrOtpInvalid)
                     ELSE Continue(p, [l EXCEPT !.pc = "verify_delete_otp",
                            !.token = generateToken(r.userId, r.normalizedMobile, now)])
        /\ otps' = IF req'[p].pc = "idle" THEN FailedAttempt(otps, r.userId)
                   ELSE otps
  /\ UNCHANGED <<users, nextUserId, now, ticks, isDevelopment, started, history, aux>>

\* DELETE the used OTP, then the 200 response with the token.
VerifyDeleteOtp(p) ==
  /\ req[p].pc = "verify_delete_otp"
  /\ LET r == req[p]
     IN /\ otps' = DeleteOtp(otps, r.userId)
        /\ Respond(p, r, 200, "")
        /\ consumed' = consumed \cup {r.userId}
        /\ issued' = {e \in issued : e.user_id # r.userId}
        /\ verifyOkCount' = IF r.bypass THEN verifyOkCount ELSE Bump(verifyOkCount)
  /\ UNCHANGED <<users, nextUserId, now, ticks, isDevelopment, started, upsertCount, aux>>

Next ==
  \/ Tick
  \/ \E p \in Procs : SendSelectUser(p)
  \/ \E p \in Procs : SendInsertUser(p)
  \/ \E p \in Procs : SendUpsertOtp(p)
  \/ \E p \in Procs : VerifySelectUser(p)
  \/ \E p \in Procs : VerifySelectOtp(p)
  \/ \E p \in Procs : VerifyDeleteOtp(p)

Spec == Init /\ [][Next]_vars

TypeOK ==
  /\ \A u \in users : u.id \in 1..(nextUserId - 1)
  /\ \A p \in Procs : req[p].pc \in
       {"idle", "send_insert_user", "send_upsert_otp",
        "verify_select_otp", "verify_delete_otp"}

\* ------------------------------------- the protected routes' middleware
\* The handlers' state, which the middleware and the helpers leave alone.
handlers == <<store, isDevelopment, req, last, started, history>>

\* Users a token is signed for (verifyOtp signs user.id, user.mobile_number).
GateUserIds == 1..2

\* A client edits the claims of its token and keeps the signature.
Tampered(t) == {[t EXCEPT !.exp = @ + JwtExpiresInMinutes],
                [t EXCEPT !.userId = @ + 1]}

\* A token with the same claims, signed with another key.
Forged(t) ==
  [t EXCEPT !.sig = Signature("another key", t.userId, t.mobileNumber, t.iat, t.exp)]

\* req.headers.authorization: missing, 'Bearer ' alone, and a token or other
\* text with and without the 'Bearer ' prefix.
AuthHeaders ==
  LET t == held.token
      texts == {<<NotAToken>>, <<BearerPrefix, BearerPrefix>>} \cup
               (IF held.issued
                THEN {<<x>> : x \in {t, Forged(t)} \cup Tampered(t)}
                ELSE {})
  IN {<<>>, <<BearerPrefix>>} \cup texts \cup {<<BearerPrefix>> \o x : x \in texts}

\* verifyOtp line 609: a token is signed for a user and handed to the client.
GateIssue ==
  /\ \E id \in GateUserIds : \E m \in {normalize(x) : x \in MobileInputs \ {<<>>}} :
       held' = [issued |-> TRUE, userId |-> id, mobileNumber |-> m, at |-> now,
                token |-> generateToken(id, m, now)]
  /\ UNCHANGED <<handlers, now, ticks, gate, fnIn, fnOut, db>>

\* The clock moves on by a minute or by the token's validity.
GateTick ==
  /\ ticks < MaxTicks
  /\ \E d \in {1, JwtExpiresInMinutes} : now' = now + d
  /\ ticks' = ticks + 1
  /\ UNCHANGED <<handlers, held, gate, fnIn, fnOut, db>>

\* A request reaches a protected route: authenticate runs.
GateRequest ==
  /\ \E authHeader \in AuthHeaders : gate' = authenticate(authHeader, now)
  /\ UNCHANGED <<handlers, now, ticks, held, fnIn, fnOut, db>>

InitGate ==
  /\ InitStore
  /\ now = 0
  /\ ticks = 0
  /\ isDevelopment = FALSE
  /\ held = NoHeld
  /\ gate = NoGate
  /\ fnIn = <<>>
  /\ fnOut = NoOut
  /\ db = NoDb

NextGate == GateIssue \/ GateTick \/ GateRequest

SpecGate == InitGate /\ [][NextGate]_vars

\* ------------------------------------------ the store connection handle
\* Pools one process makes in one run.
MaxPools == 3

\* Mutant of onConnectFailure: the cache is left as it is.
onConnectFailure_Keep(cachedPool) == cachedPool

\* catch (error) { cachedPool = null; throw error }
onConnectFailure(cachedPool) == 0

\* pool.on('error', ...): cachedPool = null
onPoolError(cachedPool) == 0

\* A handler awaits query(): connectDB returns the cached pool if there is
\* one; otherwise it goes into the try block, makes a pool (new Pool) and
\* awaits the test connection.  The configuration awaits of lines 37-41 lie
\* between the cache test and new Pool and write nothing shared.
DbCallStart(p) ==
  /\ db.call[p].pc = "idle"
  /\ \E op \in {"sendOtp", "verifyOtp"} :
       IF db.cachedPool # 0
       THEN db' = [db EXCEPT !.call[p] =
                     [NoCall EXCEPT !.pc = "done", !.op = op,
                                    !.returned = db.cachedPool]]
       ELSE /\ db.created < MaxPools
            /\ db' = [db EXCEPT !.created = @ + 1,
                                !.call[p] = [NoCall EXCEPT !.pc = "connecting", !.op = op,
                                                           !.pool = db.created + 1]]
  /\ UNCHANGED <<handlers, now, ticks, held, gate, fnIn, fnOut>>

\* pool.connect() and SELECT NOW() succeed: the pool is cached, its error
\* listener is set and the pool is returned to query().
DbConnectOk(p) ==
  /\ db.call[p].pc = "connecting"
  /\ db' = [db EXCEPT !.cachedPool = db.call[p].pool,
                      !.listening = @ \cup {db.call[p].pool},
                      !.call[p].pc = "done",
                      !.call[p].returned = db.call[p].pool]
  /\ UNCHANGED <<handlers, now, ticks, held, gate, fnIn, fnOut>>

\* Something in the try block throws: the cache is reset and the error is
\* thrown on through query() into the handler, whose catch calls next(error);
\* the handler has sent no response.
DbConnectFail(p) ==
  /\ db.call[p].pc = "connecting"
  /\ db' = [db EXCEPT !.cachedPool = onConnectFailure(@),
                      !.failed = TRUE,
                      !.call[p].pc = "done",
                      !.call[p].nextError = TRUE]
  /\ UNCHANGED <<handlers, now, ticks, held, gate, fnIn, fnOut>>

\* A pool with an error listener emits 'error' (an idle client broke).
DbPoolError ==
  /\ \E pool \in db.listening :
       db' = [db EXCEPT !.cachedPool = onPoolError(@), !.failed = TRUE]
  /\ UNCHANGED <<handlers, now, ticks, held, gate, fnIn, fnOut>>

\* The handler is through; the slot takes the next call.
DbCallEnd(p) ==
  /\ db.call[p].pc = "done"
  /\ db' = [db EXCEPT !.call[p] = NoCall]
  /\ UNCHANGED <<handlers, now, ticks, held, gate, fnIn, fnOut>>

InitDb ==
  /\ InitStore
  /\ now = 0
  /\ ticks = 0
  /\ isDevelopment = FALSE
  /\ held = NoHeld
  /\ gate = NoGate
  /\ fnIn = <<>>
  /\ fnOut = NoOut
  /\ db = NoDb

NextDb ==
  \/ \E p \in Procs : DbCallStart(p)
  \/ \E p \in Procs : DbConnectOk(p)
  \/ \E p \in Procs : DbConnectFail(p)
  \/ DbPoolError
  \/ \E p \in Procs : DbCallEnd(p)

SpecDb == InitDb /\ [][NextDb]_vars

\* ------------------------------------------- the helper functions alone
\* Longest argument made of FnAlphabet.
MaxInputLen == 3

FnAlphabet == {"+", "0", "9", "a"}

\* n digits "9".
RECURSIVE Nines(_)
Nines(n) == IF n = 0 THEN <<>> ELSE <<"9">> \o Nines(n - 1)

\* Arguments around the limits of the mobile number pattern and of the code.
LongInputs ==
  {TestOtp, Nines(5), Nines(5) \o <<"a">>, Nines(6), Nines(7), Nines(6) \o <<"a">>} \cup
  {Nines(n) : n \in 12..16} \cup {<<"+">> \o Nines(n) : n \in 14..16}

\* req.body.mobileNumber / req.body.otp as strings.
FnInputs ==
  UNION {[1..n -> FnAlphabet] : n \in 0..MaxInputLen} \cup LongInputs

\* The helpers applied to the argument, as sendOtp / verifyOtp apply them.
FnApply ==
  /\ ~fnOut.applied
  /\ \E random \in RandomSamples :
       fnOut' = [applied |-> TRUE,
                 normalized |-> normalize(fnIn),
                 twice |-> normalize(normalize(fnIn)),
                 error |-> validateMobile(fnIn),
                 otpValid |-> isValidOTPFormat(fnIn),
                 otp |-> IF isDevelopment THEN TestOtp ELSE generateOTP(random)]
  /\ UNCHANGED <<handlers, now, ticks, held, gate, fnIn, db>>

InitFn ==
  /\ InitStore
  /\ now = 0
  /\ ticks = 0
  /\ isDevelopment \in BOOLEAN
  /\ held = NoHeld
  /\ gate = NoGate
  /\ fnIn \in FnInputs
  /\ fnOut = NoOut
  /\ db = NoDb

NextFn == FnApply

SpecFn == InitFn /\ [][NextFn]_vars

\* ============================================================ claims
\* Every handler frame of the state: the requests in flight and the one that
\* answered last.
Frames == {req[p] : p \in Procs} \cup {last}

\* This step answered a request (a slot went idle, or a request was answered
\* in the step it arrived in).
Responded ==
  \/ \E p \in Procs : req[p].pc # "idle" /\ req'[p].pc = "idle"
  \/ started' # started /\ req' = req

\* This step is slot p's SELECT of the OTP row and the checks after it.
ChecksOtp(p) == req[p].pc = "verify_select_otp" /\ req'[p].pc # "verify_select_otp"

\* The OTP row slot p's SELECT returns in this step.
LoadedBy(p) == {o \in otps : o.user_id = req[p].userId
                             /\ o.mobile_number = req[p].normalizedMobile}

Accepted(p) == req'[p].pc = "verify_delete_otp" /\ req'[p].token # NoToken

RejectedWith(p, error) ==
  /\ req'[p].pc = "idle"
  /\ last'.op = "verifyOtp" /\ last'.status = 400 /\ last'.error = error
  /\ last'.token = NoToken

\* C1: the otps table holds at most one row per user id, whatever sendOtp and
\* verifyOtp requests interleave: an upsert for a user with a row replaces it.
C1_OneChallengePerUser ==
  \A o1 \in otps : \A o2 \in otps : o1.user_id = o2.user_id => o1 = o2

\* C1 witness: a second sendOtp for a user with a standing row stored another
\* code, and the user's single row carries it.
C1_Witness ==
  \E e \in issued :
    /\ e.prev # <<>> /\ e.prev # e.cur
    /\ \E o \in otps : o.user_id = e.user_id /\ o.otp = e.cur
    /\ Cardinality({o \in otps : o.user_id = e.user_id}) = 1

\* C2: with development mode off, a verifyOtp frame holds a token only if its
\* SELECT returned a row, the supplied code equals the stored one, and the
\* token was minted (iat, the time of the check) not after the row's expiry.
C2_TokenOnlyAfterCheck ==
  ~isDevelopment =>
    \A r \in Frames :
      (r.op = "verifyOtp" /\ (r.token # NoToken \/ r.status = 200)) =>
        /\ r.rowFound
        /\ r.storedOtp = r.otp
        /\ r.token.iat <= r.expiryTime
        /\ r.token.userId = r.userId
        /\ \E u \in users : u.id = r.userId /\ u.mobile_number = r.normalizedMobile

\* C2 witness: a verification answered 200 with a token, development mode off.
C2_Witness ==
  /\ ~isDevelopment
  /\ last.op = "verifyOtp" /\ last.status = 200 /\ last.token # NoToken

\* C3 (as claimed): with development mode off and a single OTP ever stored, at
\* most one verification of it is answered 200.
C3_AtMostOneSuccess ==
  (~isDevelopment /\ upsertCount <= 1) => verifyOkCount <= 1

\* C4: a verifyOtp request answered with a rejection leaves the users and otps
\* tables as they were, in every step it takes.
C4_RejectionLeavesStores ==
  [][ /\ (Responded /\ last'.op = "verifyOtp" /\ last'.status # 200)
           => store' = store
      /\ \A p \in Procs :
           (req'[p].op = "verifyOtp" /\ req'[p].pc = "verify_select_otp"
              /\ req[p].pc = "idle") => store' = store ]_vars

\* C4 witness: a wrong code was rejected and the stored OTP is still there.
C4_Witness ==
  /\ last.op = "verifyOtp" /\ last.error = ErrOtpInvalid
  /\ \E o \in otps : o.user_id = last.userId /\ o.otp = last.storedOtp
                     /\ o.expiry_time = last.expiryTime

\* C5: once a verification deleted a user's OTP and no sendOtp stored one
\* since, the user has no row, and a verifyOtp reading the otps table is
\* answered "OTP not found" without a token.
C5_SingleUse ==
  [][ /\ \A u \in consumed' : ~\E o \in otps' : o.user_id = u
      /\ \A p \in Procs :
           (ChecksOtp(p) /\ req[p].userId \in consumed) =>
              RejectedWith(p, ErrOtpNotFound) ]_vars

\* C5 witness: development mode off, a verification succeeded and the repeated
\* one, with the code that was stored, was answered "OTP not found".
C5_Witness ==
  /\ ~isDevelopment /\ verifyOkCount = 1 /\ upsertCount = 1
  /\ last.op = "verifyOtp" /\ last.error = ErrOtpNotFound
  /\ last.userId \in consumed
  /\ last.otp \in {toString(n) : n \in RandomOtpNumbers}

\* C6: after two sendOtp requests for a user stored c1 and then c2, c1 # c2,
\* a verifyOtp checked strictly before the expiry is answered "Invalid OTP"
\* with c1 and is accepted with c2.
C6_SecondCodeWins ==
  [][ \A p \in Procs : \A e \in issued : \A o \in LoadedBy(p) :
        (ChecksOtp(p) /\ e.user_id = req[p].userId
           /\ e.prev # <<>> /\ e.prev # e.cur /\ now < o.expiry_time) =>
          /\ req[p].otp = e.prev => RejectedWith(p, ErrOtpInvalid)
          /\ req[p].otp = e.cur => Accepted(p) ]_vars

\* C6 witness: the overwritten code was just rejected as invalid while the
\* second code stands unexpired.
C6_Witness ==
  \E e \in issued :
    /\ e.prev # <<>> /\ e.prev # e.cur
    /\ last.op = "verifyOtp" /\ last.userId = e.user_id
    /\ last.otp = e.prev /\ last.error = ErrOtpInvalid
    /\ \E o \in otps : o.user_id = e.user_id /\ o.otp = e.cur /\ now < o.expiry_time

\* The normalized form of a raw number: a leading + kept, else +91 prefixed.
Prefixed(m) == IF Len(m) > 0 /\ Head(m) = "+" THEN m ELSE <<"+", "9", "1">> \o m

\* C7: no two users rows share a mobile_number, and every number the handlers
\* look up or insert is the normalized one (leading +), never the raw input.
C7_NormalizedUnique ==
  /\ \A u1 \in users : \A u2 \in users :
       (u1.mobile_number = u2.mobile_number \/ u1.id = u2.id) => u1 = u2
  /\ \A u \in users : Head(u.mobile_number) = "+"
  /\ \A o \in otps : Head(o.mobile_number) = "+"
  /\ \A r \in Frames :
       r.normalizedMobile # <<>> =>
         /\ r.normalizedMobile = Prefixed(r.mobileNumber)
         /\ Head(r.normalizedMobile) = "+"

\* C7 witness: a request that gave the number without + was answered 200 for
\* the identity stored under the prefixed number.
C7_Witness ==
  /\ last.status = 200 /\ Len(last.mobileNumber) > 0 /\ Head(last.mobileNumber) # "+"
  /\ \E u \in users : u.id = last.userId /\ u.mobile_number = Prefixed(last.mobileNumber)
  /\ Cardinality(users) = 1

\* C8 (as claimed): a sendOtp request with a well-formed number is never
\* answered with a failure, also when another request creates the user first.
C8_CreationNeverFails ==
  (last.op = "sendOtp" /\ mobileRegexTest(last.mobileNumber)) => last.status = 200

\* C9 (as claimed): with development mode off, no token is minted at or after
\* the expiry of the stored OTP.
C9_RejectedFromExpiryOn ==
  ~isDevelopment =>
    \A r \in Frames :
      (r.op = "verifyOtp" /\ r.token # NoToken) => r.token.iat < r.expiryTime

\* C9 (amended): a verifyOtp checked strictly after the expiry is answered
\* "OTP has expired" without a token, even when the code matches; checked at
\* exactly the expiry with the matching code it is accepted.
C9_RejectedAfterExpiry ==
  [][ \A p \in Procs : \A o \in LoadedBy(p) :
        ChecksOtp(p) =>
          /\ now > o.expiry_time => RejectedWith(p, ErrOtpExpired)
          /\ (now = o.expiry_time /\ o.otp = req[p].otp) => Accepted(p) ]_vars

\* C9 witness: the matching code was rejected as expired.
C9_Witness ==
  /\ ~isDevelopment
  /\ last.op = "verifyOtp" /\ last.error = ErrOtpExpired
  /\ last.storedOtp = last.otp /\ now > last.expiryTime

\* C10: the handler's call isOTPExpired(expiryTime) is true exactly when the
\* clock is strictly after expiryTime: the "expired" answer is given then and
\* only then.
C10_ExpiredIffStrictlyAfter ==
  [][ \A p \in Procs : \A o \in LoadedBy(p) :
        ChecksOtp(p) =>
          (RejectedWith(p, ErrOtpExpired) <=> now > o.expiry_time) ]_vars

\* C10 witness: a check made at exactly the expiry did not count as expired.
C10_Witness ==
  \E p \in Procs :
    /\ req[p].pc = "verify_delete_otp" /\ req[p].rowFound
    /\ req[p].token.iat = req[p].expiryTime /\ now = req[p].expiryTime

\* ------------------------------------------------ claims on the middleware
\* The text the middleware took as the token is one JWT.
OneJwt(token) == Len(token) = 1 /\ token[1].form = "jwt"

\* The signature of t was made with the process secret over t's own claims.
ValidSignature(t) ==
  /\ t.sig.key = JWT_SECRET
  /\ t.sig.over = <<t.userId, t.mobileNumber, t.iat, t.exp>>

\* The token of the latest request at the middleware is acceptable at the
\* time of that request.
GateTokenValid ==
  /\ OneJwt(gate.token)
  /\ ValidSignature(gate.token[1])
  /\ gate.at < gate.token[1].exp

\* C11: the middleware calls next() only for a token whose signature is valid
\* under the secret and whose expiry lies ahead, and req.user then carries the
\* userId and mobileNumber of that token; when verifyToken throws, the answer is
\* 401 with verifyToken's message and next() is not called.
C11_ForwardOnlyVerified ==
  gate.seen =>
    /\ gate.forwarded =>
         /\ gate.verifyCalled
         /\ GateTokenValid
         /\ gate.user.userId = gate.token[1].userId
         /\ gate.user.mobileNumber = gate.token[1].mobileNumber
         /\ gate.status = 0
    /\ (gate.verifyCalled /\ ~GateTokenValid) =>
         /\ ~gate.forwarded
         /\ gate.status = 401
         /\ gate.error \in {ErrTokenExpired, ErrInvalidToken}
         /\ gate.user = NoPayload

C11_Witness ==
  /\ gate.forwarded
  /\ gate.user.userId = 2
  /\ gate.at > gate.user.iat

\* C12: without an Authorization header, or with 'Bearer ' and nothing after it,
\* the answer is 401, verifyToken is not called and next() is not called; a
\* header that is the bare token has the outcome of 'Bearer ' + that token.
C12_MissingTokenRejected ==
  gate.seen =>
    /\ gate.authHeader \in {<<>>, <<BearerPrefix>>} =>
         /\ gate.status = 401
         /\ gate.error \in {ErrAuthHeaderRequired, ErrTokenRequired}
         /\ ~gate.verifyCalled
         /\ ~gate.forwarded
    /\ (gate.authHeader # <<>> /\ gate.authHeader[1] # BearerPrefix) =>
         gate = [authenticate(<<BearerPrefix>> \o gate.authHeader, gate.at)
                   EXCEPT !.authHeader = gate.authHeader]

C12_Witness ==
  /\ gate.seen
  /\ OneJwt(gate.authHeader)
  /\ gate.forwarded

\* C13: a token signed for a payload at t0 and verified before t0 plus the
\* validity hands back that payload's userId and mobileNumber (jwt.sign has
\* added iat and exp); verified when the validity has run out, verifyToken
\* throws 'Token has expired'.
C13_RoundTrip ==
  (gate.seen /\ held.issued /\ gate.token = <<held.token>>) =>
    IF gate.at < held.at + JwtExpiresInMinutes
    THEN /\ gate.forwarded
         /\ [f \in {"userId", "mobileNumber"} |-> gate.user[f]] =
              [userId |-> held.userId, mobileNumber |-> held.mobileNumber]
         /\ gate.user.iat = held.at
         /\ gate.user.exp = held.at + JwtExpiresInMinutes
    ELSE /\ ~gate.forwarded
         /\ gate.error = ErrTokenExpired

C13_Witness ==
  /\ gate.seen /\ held.issued /\ gate.token = <<held.token>>
  /\ gate.at = held.at + JwtExpiresInMinutes
  /\ gate.error = ErrTokenExpired

\* C14: verifyToken throws 'Token has expired' exactly for a JWT with a valid
\* signature whose expiry has come, and 'Invalid token' for a text that is not
\* a JWT or whose signature does not fit; the two messages differ.
C14_FailureKinds ==
  gate.verifyCalled =>
    LET signed == OneJwt(gate.token) /\ ValidSignature(gate.token[1])
    IN /\ (gate.error = ErrTokenExpired) <=>
            (signed /\ gate.at >= gate.token[1].exp)
       /\ (gate.error = ErrInvalidToken) <=> ~signed
       /\ ErrTokenExpired # ErrInvalidToken

C14_Witness ==
  /\ gate.verifyCalled
  /\ OneJwt(gate.token)
  /\ ~ValidSignature(gate.token[1])
  /\ gate.at >= gate.token[1].exp
  /\ gate.error = ErrInvalidToken

\* -------------------------------------------- claims on the helper functions
\* C15: the normalized number is the input itself when the input starts with
\* '+', and '+91' followed by the input otherwise; normalizing the result
\* again changes nothing.
C15_Normalization ==
  fnOut.applied =>
    /\ IF fnIn # <<>> /\ Head(fnIn) = "+"
       THEN fnOut.normalized = fnIn
       ELSE /\ Len(fnOut.normalized) = Len(fnIn) + 3
            /\ SubSeq(fnOut.normalized, 1, 3) = <<"+", "9", "1">>
            /\ SubSeq(fnOut.normalized, 4, Len(fnOut.normalized)) = fnIn
    /\ fnOut.twice = fnOut.normalized

C15_Witness ==
  /\ fnOut.applied
  /\ Len(fnIn) >= 12
  /\ Head(fnIn) # "+"
  /\ fnOut.normalized # fnIn
  /\ fnOut.twice = fnOut.normalized

\* C16: whenever the normalized number does not match the pattern (optional '+',
\* 2 to 15 digits, the first not 0) sendOtp answers with a validation error, so
\* no number outside the pattern goes on to the users and otps tables.
C16_NormalizedThenValidated ==
  (fnOut.applied /\ ~mobileRegexTest(fnOut.normalized)) =>
    fnOut.error \in {ErrMobileRequired, ErrMobileFormat}

\* ------------------------------------------------ claims on the two handlers
\* C17: a sendOtp request that passes validation has isNewUser true exactly
\* when the users table held no row for its normalized number when it looked;
\* the 200 response carries that isNewUser and the user's id; no step removes
\* or changes a row of users, so a number keeps its id and later requests for
\* it have isNewUser false.
C17_IsNewUserExact ==
  [][/\ \A p \in Procs :
          (req[p].pc = "idle" /\ req'[p].op = "sendOtp") =>
            (req'[p].isNewUser <=>
               ~\E u \in users : u.mobile_number = Prefixed(req'[p].mobileNumber))
     /\ \A p \in Procs :
          (req[p].op = "sendOtp" /\ req'[p].pc = "idle" /\ last'.status = 200) =>
            /\ last'.isNewUser = req[p].isNewUser
            /\ [id |-> last'.userId, mobile_number |-> Prefixed(last'.mobileNumber)]
                 \in users'
     /\ users \subseteq users'
    ]_vars

C17_Witness ==
  /\ last.op = "sendOtp"
  /\ last.status = 200
  /\ ~last.isNewUser
  /\ upsertCount = 2
  /\ [id |-> last.userId, mobile_number |-> Prefixed(last.mobileNumber)] \in users

\* C18: in development mode a verifyOtp request with the test OTP for an
\* existing user never comes to the SELECT of the otps table: it mints the token
\* right after the user lookup and answers 200 with it, whatever otps holds.
C18_TestOtpSkipsStore ==
  isDevelopment =>
    \A r \in Frames :
      (r.op = "verifyOtp" /\ r.otp = TestOtp /\ r.userId # 0) =>
        /\ r.bypass
        /\ r.pc \in {"verify_delete_otp", "done"}
        /\ ~r.rowFound
        /\ r.token # NoToken
        /\ r.token.userId = r.userId
        /\ r.pc = "done" => (r.status = 200 /\ r.error = "")

\* C18 witness: the test OTP was accepted while the user's stored OTP had
\* expired.
C18_Witness ==
  /\ isDevelopment
  /\ \E p \in Procs :
       /\ req[p].op = "verifyOtp" /\ req[p].bypass
       /\ req[p].pc = "verify_delete_otp"
       /\ \E o \in otps : o.user_id = req[p].userId /\ now > o.expiry_time

\* C19: a sendOtp response holds the code in development mode only; with the
\* mode off, the response of a request about to answer is the same whichever
\* code was generated for it.
C19_CodeOnlyInDevelopment ==
  /\ (last.op = "sendOtp" /\ last.resOtp # <<>>) =>
       (isDevelopment /\ last.resOtp = last.newOtp)
  /\ (last.op = "sendOtp" /\ last.status = 200 /\ isDevelopment) =>
       last.resOtp = last.newOtp
  /\ ~isDevelopment =>
       \A p \in Procs :
         req[p].pc = "send_upsert_otp" =>
           \A c \in NewOtps :
             sendOtpResponse([req[p] EXCEPT !.newOtp = c], isDevelopment)
               = sendOtpResponse(req[p], isDevelopment)

\* C19 witness: with the mode off, a code was stored and the response did not
\* hold it.
C19_Witness ==
  /\ ~isDevelopment
  /\ last.op = "sendOtp" /\ last.status = 200
  /\ last.newOtp = OtherOtp
  /\ last.resOtp = <<>>
  /\ \E o \in otps : o.user_id = last.userId /\ o.otp = OtherOtp

\* C20: a verifyOtp request that gives the code stored for its user is not
\* turned away when it arrives; when its check of the stored OTP is made
\* strictly before the expiry it is accepted; and its 200 response carries a
\* token whose payload is that user's id and normalized mobile number.
C20_IssueThenVerify ==
  [][/\ (started' = started + 1 /\ req' = req /\ last'.op = "verifyOtp") =>
          ~\E u \in users : \E o \in otps :
              /\ u.mobile_number = Prefixed(last'.mobileNumber)
              /\ o.user_id = u.id
              /\ o.otp = last'.otp
     /\ \A p \in Procs : \A o \in LoadedBy(p) :
          (ChecksOtp(p) /\ o.otp = req[p].otp /\ now < o.expiry_time) =>
            Accepted(p)
     /\ \A p \in Procs :
          (req[p].pc = "verify_delete_otp" /\ req'[p].pc = "idle") =>
            /\ last'.status = 200
            /\ last'.token.form = "jwt"
            /\ [id |-> last'.token.userId, mobile_number |-> last'.token.mobileNumber]
                 \in users
            /\ last'.token.mobileNumber = Prefixed(last'.mobileNumber)
    ]_vars

\* C20 witness: the number was given without '+', its one stored code was
\* verified once, before the expiry.
C20_Witness ==
  /\ last.op = "verifyOtp" /\ last.status = 200 /\ ~last.bypass
  /\ last.mobileNumber = <<"9", "8">>
  /\ last.storedOtp = last.otp
  /\ last.token.iat < last.expiryTime
  /\ last.token.mobileNumber = <<"+", "9", "1", "9", "8">>
  /\ [id |-> last.token.userId, mobile_number |-> last.token.mobileNumber] \in users
  /\ upsertCount = 1 /\ verifyOkCount = 1

\* ------------------------------------------------- claims on the session
\* The instants at which a token can have been minted so far.
MintTimes == {k * OtpExpiryMinutes : k \in 0..ticks}

\* The tokens verifyOtp has minted or can have minted so far: those of the
\* handler frames, and for every user the token of every earlier instant.
MintedTokens ==
  {r.token : r \in {f \in Frames : f.token # NoToken}} \cup
  {generateToken(u.id, u.mobile_number, t0) : u \in users, t0 \in MintTimes}

\* C21: whatever sendOtp and verifyOtp have done to the users and otps tables
\* since, the middleware lets a minted token pass exactly while the clock is
\* before the token's exp, and hands on the token's userId and mobileNumber:
\* no request revokes a token.
C21_NotRevoked ==
  \A t \in MintedTokens :
    LET g == authenticate(<<BearerPrefix, t>>, now)
    IN /\ g.forwarded <=> now < t.exp
       /\ g.forwarded => (g.user.userId = t.userId /\ g.user.mobileNumber = t.mobileNumber)

\* C21 witness: after a verification answered 200, a later sendOtp stored a new
\* OTP for that user and the clock moved on; the user's token still passes.
C21_Witness ==
  /\ verifyOkCount >= 1
  /\ last.op = "sendOtp" /\ last.status = 200
  /\ ticks >= 1
  /\ \E o \in otps : o.user_id = last.userId
  /\ \E t \in MintedTokens :
       /\ t.userId = last.userId /\ t.iat < now
       /\ authenticate(<<BearerPrefix, t>>, now).forwarded

CommitsUpsert(p) == req[p].pc = "send_upsert_otp" /\ req'[p].pc = "idle"

\* C23: when a sendOtp request commits its upsert, the otps table holds one row
\* for its user and that row has the code and the expiry of this request, also
\* when another sendOtp for the user is in flight or has just committed; and
\* no step leaves a row whose code and expiry are not those of one request.
C23_LastUpsertWins ==
  [][/\ \A p \in Procs :
          CommitsUpsert(p) =>
            /\ Cardinality({o \in otps' : o.user_id = req[p].userId}) = 1
            /\ \A o \in otps' :
                 o.user_id = req[p].userId =>
                   (o.otp = req[p].newOtp /\ o.expiry_time = req[p].newExpiry)
     /\ \A o \in otps' \ otps :
          \E p \in Procs :
            /\ CommitsUpsert(p)
            /\ o.user_id = req[p].userId
            /\ o.otp = req[p].newOtp /\ o.expiry_time = req[p].newExpiry
    ]_vars

\* C23 witness: two sendOtp requests for one existing user with different codes
\* and expiries were in flight together; the later one committed first, the
\* row holds its code and expiry, and the earlier one is about to commit.
C23_Witness ==
  /\ last.op = "sendOtp" /\ last.status = 200 /\ ~last.isNewUser
  /\ \E o \in otps :
       /\ o.user_id = last.userId
       /\ o.otp = last.newOtp /\ o.expiry_time = last.newExpiry
  /\ \E p \in Procs :
       /\ req[p].pc = "send_upsert_otp" /\ ~req[p].isNewUser
       /\ req[p].userId = last.userId
       /\ req[p].newOtp # last.newOtp
       /\ req[p].newExpiry < last.newExpiry

\* ---------------------------------------- claims on the order of the checks
SixDigits(s) == Len(s) = 6 /\ \A i \in 1..6 : s[i] \in Digits

\* This step is the arrival of a request; NewFrame is its frame after the
\* step: answered at once (kept in last) or in flight in the slot it took.
Arrives == started' = started + 1
NewFrame ==
  IF req' = req THEN last'
  ELSE req'[CHOOSE p \in Procs : req[p].pc = "idle" /\ req'[p].pc # "idle"]

\* C24: a verifyOtp request that gives both fields is answered by the first
\* check that fails, in the order: the code is not six digits (400, validation),
\* no user has the normalized number (404), and, unless development mode and
\* the test OTP skip them, no OTP row (not found), the clock after the row's
\* expiry (expired, whatever the code), the code differs (invalid).
C24_FirstFailingCheck ==
  [][/\ (Arrives /\ NewFrame.op = "verifyOtp" /\ NewFrame.mobileNumber # <<>>) =>
          LET f == NewFrame
              known == \E u \in users : u.mobile_number = Prefixed(f.mobileNumber)
          IN IF ~SixDigits(f.otp)
             THEN /\ f.pc = "done" /\ f.status = 400
                  /\ f.error = IF f.otp = <<>> THEN ErrFieldsRequired ELSE ErrOtpFormat
             ELSE IF ~known
             THEN f.pc = "done" /\ f.status = 404 /\ f.error = ErrUserNotFound
             ELSE IF isDevelopment /\ f.otp = TestOtp
             THEN f.pc = "verify_delete_otp"
             ELSE f.pc = "verify_select_otp"
     /\ \A p \in Procs :
          ChecksOtp(p) =>
            IF LoadedBy(p) = {} THEN RejectedWith(p, ErrOtpNotFound)
            ELSE \A o \in LoadedBy(p) :
                   IF now > o.expiry_time THEN RejectedWith(p, ErrOtpExpired)
                   ELSE IF o.otp # req[p].otp THEN RejectedWith(p, ErrOtpInvalid)
                   ELSE Accepted(p)
    ]_vars

\* C24 witness: a wrong code against an expired OTP was reported as expired.
C24_Witness ==
  /\ last.op = "verifyOtp" /\ last.status = 400 /\ last.error = ErrOtpExpired
  /\ last.rowFound /\ last.storedOtp # last.otp

\* ---------------------------------------- claims on the connection handle
\* C25: while nothing has failed, the process has made at most one pool and
\* every call of connectDB has returned that one pool.
C25_SinglePool ==
  ~db.failed =>
    /\ db.created <= 1
    /\ \A p \in Procs : db.call[p].returned \in {0, 1}

\* This step is the failure of slot p's connectDB.
ConnectFails(p) ==
  db.call[p].pc = "connecting" /\ db'.call[p].pc = "done" /\ db'.call[p].nextError

\* C26: when connectDB fails, cachedPool is null afterwards, no pool is
\* returned, and the handler's catch calls next(error) having sent no response
\* and no token; when a pool emits 'error', cachedPool is null afterwards; and
\* a call that finds cachedPool null makes a new pool.
C26_FailureClearsCache ==
  [][/\ \A p \in Procs :
          ConnectFails(p) =>
            /\ db'.cachedPool = 0
            /\ db'.call[p].returned = 0
            /\ db'.call[p].status = 0
            /\ db'.call[p].token = NoToken
     /\ (db'.call = db.call /\ db'.failed /\ db' # db) => db'.cachedPool = 0
     /\ \A p \in Procs :
          (db.call[p].pc = "idle" /\ db'.call[p].pc # "idle" /\ db.cachedPool = 0) =>
            /\ db'.call[p].pc = "connecting"
            /\ db'.created = db.created + 1
            /\ db'.call[p].pool = db'.created
     /\ \A p \in Procs :
          db'.call[p].nextError => (db'.call[p].status = 0 /\ db'.call[p].returned = 0)
    ]_vars

\* C26 witness: a pool was cached, a failing connectDB reset the cache and the
\* handler got the error; the next call is making a new pool.
C26_Witness ==
  /\ db.cachedPool = 0
  /\ db.listening # {}
  /\ \E p \in Procs : \E q \in Procs :
       /\ db.call[p].nextError
       /\ db.call[q].pc = "connecting"
       /\ db.call[q].pool > db.call[p].pool
       /\ \A l \in db.listening : db.call[q].pool > l

\* -------------------------------------------------- claims on the OTP code
\* C27: the code sendOtp stores (line 482: the test OTP in development mode,
\* generateOTP() otherwise) is a string of six decimal digits, and
\* isValidOTPFormat holds exactly for the strings of six decimal digits.
C27_SixDigitCodes ==
  fnOut.applied =>
    /\ Len(fnOut.otp) = 6
    /\ \A i \in 1..Len(fnOut.otp) : fnOut.otp[i] \in Digits
    /\ fnOut.otp[1] # "0" \/ isDevelopment
    /\ isDevelopment => fnOut.otp = TestOtp
    /\ fnOut.otpValid <=> SixDigits(fnIn)

\* C27 witness: the smallest random number gave a six-digit code, and a
\* seven-digit input was not a valid code.
C27_Witness ==
  /\ fnOut.applied /\ ~isDevelopment
  /\ fnOut.otp = <<"1", "0", "0", "0", "0", "0">>
  /\ fnIn = Nines(7)
  /\ ~fnOut.otpValid

\* C28: the DELETE of a successful verifyOtp removes only the OTP row the
\* request loaded and checked: a row of its user with another code or expiry,
\* stored by a sendOtp since, is still there after the step.
C28_DeletesOnlyValidated ==
  [][\A p \in Procs :
       (req[p].pc = "verify_delete_otp" /\ ~req[p].bypass /\ req'[p].pc = "idle") =>
         \A o \in otps :
           (o.user_id = req[p].userId /\
            (o.otp # req[p].storedOtp \/ o.expiry_time # req[p].expiryTime)) =>
             o \in otps'
    ]_vars

====
